---- MODULE Spec2Model ----
(***************************************************************************)
(* Model of app.py: the booking submission handlers (/submit and           *)
(* /api/submit-json), the admin listing handler (/admin) and the database  *)
(* connector get_db_conn.                                                  *)
(*                                                                         *)
(* Text is modelled as sequences of one-character strings so that          *)
(* str.strip(), len() and urllib.parse.quote() are computed, not assumed.  *)
(* The MySQL server and the mysql.connector library are the environment:   *)
(* every call into them may succeed or raise.                              *)
(***************************************************************************)
EXTENDS Integers, Sequences, FiniteSets, TLC

\* ---------------------------------------------------------------- bounds
\* number of requests handled in one run (each may overlap the others)
MaxReq == 2
\* longest phone number (before padding) that is submitted
MaxPhoneLen == 7
\* largest `retries` argument passed to get_db_conn in a direct call
MaxRetries == 9

\* ------------------------------------------------------ program constants
MIN_PHONE_LEN == 6
DEFAULT_RETRIES == 8
DEFAULT_DELAY == 2
ADMIN_LIMIT == 200

Reqs == 1..MaxReq

\* ------------------------------------------------------------------ text
Whitespace == {" "}

Rep(c, n) == [i \in 1..n |-> c]

RECURSIVE lstrip(_)
lstrip(s) ==
    IF s = <<>> THEN s
    ELSE IF Head(s) \in Whitespace THEN lstrip(Tail(s)) ELSE s

RECURSIVE rstrip(_)
rstrip(s) ==
    IF s = <<>> THEN s
    ELSE IF s[Len(s)] \in Whitespace THEN rstrip(SubSeq(s, 1, Len(s) - 1)) ELSE s

\* str.strip(): leading and trailing whitespace removed, inner kept
strip(s) == rstrip(lstrip(s))

Lower ==
    {"a", "b", "c", "d", "e", "f", "g", "h", "i", "j", "k", "l", "m", "n",
     "o", "p", "q", "r", "s", "t", "u", "v", "w", "x", "y", "z"}
Upper ==
    {"A", "B", "C", "D", "E", "F", "G", "H", "I", "J", "K", "L", "M", "N",
     "O", "P", "Q", "R", "S", "T", "U", "V", "W", "X", "Y", "Z"}
Digits == {"0", "1", "2", "3", "4", "5", "6", "7", "8", "9"}

\* characters urllib.parse.quote leaves alone: letters, digits, "_.-~" and
\* the default safe "/"
QuoteSafe == Lower \cup Upper \cup Digits \cup {"_", ".", "-", "~", "/"}

\* percent-encoding of the other characters of the alphabet
PercentCode(c) ==
    CASE c = " "  -> <<"%", "2", "0">>
      [] c = "\n" -> <<"%", "0", "A">>
      [] c = ":"  -> <<"%", "3", "A">>
      [] c = "("  -> <<"%", "2", "8">>
      [] c = ")"  -> <<"%", "2", "9">>

RECURSIVE quote(_)
quote(s) ==
    IF s = <<>> THEN <<>>
    ELSE (IF Head(s) \in QuoteSafe THEN <<Head(s)>> ELSE PercentCode(Head(s)))
         \o quote(Tail(s))

\* ------------------------------------------------------------- raw input
FieldNames ==
    {"item_description", "sender_name", "sender_phone", "sender_pincode",
     "receiver_pincode"}

Str(s) == [t |-> "str", v |-> s]
Num(n) == [t |-> "num", v |-> n]
\* a key that is missing (or, in JSON, null)
Missing == [t |-> "none", v |-> 0]

Payload(item, name, phone, spin, rpin) ==
    [item_description |-> item, sender_name |-> name, sender_phone |-> phone,
     sender_pincode |-> spin, receiver_pincode |-> rpin]

\* request.form.get(name, ""): form values are always strings
FormGet(p, n) == IF p[n].t = "str" THEN p[n].v ELSE <<>>

\* Python truthiness of a decoded JSON value
Truthy(x) ==
    CASE x.t = "str" -> x.v # <<>>
      [] x.t = "num" -> x.v # 0
      [] OTHER -> FALSE

\* (data.get(name) or "")
JsonGet(data, n) == IF Truthy(data[n]) THEN data[n] ELSE Str(<<>>)

\* request.get_json(silent=True) or {} : a body that is no JSON, or a falsy
\* JSON value, reads as the empty object
EmptyObject == [n \in FieldNames |-> Missing]
JsonData(body) == IF body.kind = "object" THEN body.data ELSE EmptyObject

\* ------------------------------------------------------------ validation
ErrItem == "Item description required."
ErrName == "Sender name required."
ErrPhone == "Valid sender phone required."
ErrSpin == "Sender pincode required."
ErrRpin == "Receiver pincode required."

\* not sender_phone or len(sender_phone) < 6
PhoneInvalidNoLength(s) == s = <<>>
PhoneInvalid(s) == s = <<>> \/ Len(s) < MIN_PHONE_LEN

\* one `if ...: errs.append(...)` statement
AppendIf(errs, cond, reason) == IF cond THEN Append(errs, reason) ELSE errs

\* the five checks, in the order the handlers make them
ValidateFirstOnly(f) ==
    IF f.item_description = <<>> THEN <<ErrItem>>
    ELSE IF f.sender_name = <<>> THEN <<ErrName>>
    ELSE IF PhoneInvalid(f.sender_phone) THEN <<ErrPhone>>
    ELSE IF f.sender_pincode = <<>> THEN <<ErrSpin>>
    ELSE IF f.receiver_pincode = <<>> THEN <<ErrRpin>>
    ELSE <<>>
Validate(f) ==
    LET e1 == AppendIf(<<>>, f.item_description = <<>>, ErrItem)
        e2 == AppendIf(e1, f.sender_name = <<>>, ErrName)
        e3 == AppendIf(e2, PhoneInvalid(f.sender_phone), ErrPhone)
        e4 == AppendIf(e3, f.sender_pincode = <<>>, ErrSpin)
        e5 == AppendIf(e4, f.receiver_pincode = <<>>, ErrRpin)
    IN  e5

\* ------------------------------------------------------ database connector
NoExc == [type |-> "None"]
ConnectError(i) == [type |-> "connect_error", attempt |-> i]

\* what the server answers to each of up to n connection attempts: it refuses
\* the first k and accepts from then on (the loop never looks past the first
\* accepted attempt)
ConnOutcomes(n) ==
    { [i \in 1..n |-> i > k] : k \in 0..n }

\* the number of iterations of `for i in range(retries if retry else 1)`
RangeLen(retry, retries) ==
    IF retry THEN (IF retries > 0 THEN retries ELSE 0) ELSE 1

\* `if retry: time.sleep(delay)` at the end of the except block
SleepOnFailure(retry, delay) ==
    IF retry THEN <<[ev |-> "sleep", secs |-> delay]>> ELSE <<>>

\* last_exc = e
KeepFirstExc(last_exc, e) == IF last_exc = NoExc THEN e ELSE last_exc
RecordExc(last_exc, e) == e

RECURSIVE conn_loop(_, _, _, _, _, _, _)
conn_loop(i, n, retry, delay, accepts, last_exc, events) ==
    IF i >= n
    THEN [ok |-> FALSE,
          exc |-> [type |-> "Exception", msg |-> "Could not connect to DB: ",
                   last_exc |-> last_exc],
          events |-> events]
    ELSE IF accepts[i + 1]
         THEN [ok |-> TRUE, exc |-> NoExc,
               events |-> Append(events, [ev |-> "connect", attempt |-> i + 1,
                                          ok |-> TRUE])]
         ELSE conn_loop(i + 1, n, retry, delay, accepts,
                        RecordExc(last_exc, ConnectError(i + 1)),
                        Append(events, [ev |-> "connect", attempt |-> i + 1,
                                        ok |-> FALSE])
                            \o SleepOnFailure(retry, delay))

\* get_db_conn(retry, retries, delay) against a server answering `accepts`
get_db_conn(retry, retries, delay, accepts) ==
    conn_loop(0, RangeLen(retry, retries), retry, delay, accepts, NoExc, <<>>)

\* ------------------------------------------------------------------ auth
ADMIN_USER == "admin"
ADMIN_PASS == <<"s", "3">>

generate_password_hash(pw) == [hash_of |-> pw]
check_password_hash(h, pw) == h.hash_of = pw

\* users = {ADMIN_USER: generate_password_hash(ADMIN_PASS)}
users == [u \in {ADMIN_USER} |-> generate_password_hash(ADMIN_PASS)]

verify(username, password) ==
    username \in DOMAIN users /\ check_password_hash(users[username], password)

\* ------------------------------------------------- notification message
OWNER_WHATSAPP == <<"9", "1", "8", "2", "9", "0", "1", "0", "5", "8", "9", "1">>

msg_plain(f) ==
    <<"C", "o", "u", "r", "i", "e", "r", "S", "a", "t", "h", "i", " ",
      "b", "o", "o", "k", "i", "n", "g", ":", "\n">>
    \o <<"I", "t", "e", "m", ":", " ">> \o f.item_description \o <<"\n">>
    \o <<"S", "e", "n", "d", "e", "r", ":", " ">> \o f.sender_name
    \o <<" ", "(">> \o f.sender_phone \o <<")", "\n">>
    \o <<"F", "r", "o", "m", " ", "P", "i", "n", "c", "o", "d", "e", ":", " ">>
    \o f.sender_pincode \o <<"\n">>
    \o <<"T", "o", " ", "P", "i", "n", "c", "o", "d", "e", ":", " ">>
    \o f.receiver_pincode \o <<"\n">>

wa_url(f) ==
    <<"h", "t", "t", "p", "s", ":", "/", "/", "w", "a", ".", "m", "e", "/">>
    \o OWNER_WHATSAPP \o <<"?", "t", "e", "x", "t", "=">> \o quote(msg_plain(f))

\* ------------------------------------------------------------- responses
NoData == [none |-> TRUE]
NoResponse ==
    [kind |-> "none", status |-> 0, target |-> "", flashes |-> <<>>,
     data |-> NoData]

\* flash(e, "danger") for each e, then redirect(url_for("index"))
RejectedForm(errs) ==
    [kind |-> "redirect", status |-> 302, target |-> "/",
     flashes |-> [i \in 1..Len(errs) |-> <<errs[i], "danger">>],
     data |-> NoData]

\* jsonify({"ok": False, "errors": errs}), 400
RejectedJson(errs) ==
    [kind |-> "json", status |-> 400, target |-> "", flashes |-> <<>>,
     data |-> [ok |-> FALSE, errors |-> errs]]

FlashSaveError == "Server error saving booking. Try again later."
FlashSaved == "Booking saved. Click WhatsApp link to notify manually."
FlashAdminError == "Could not load bookings."
JsonDbError == "Server DB error"

\* the except block of submit
StoreFailedFormLeaky(e) ==
    [kind |-> "redirect", status |-> 302, target |-> "/",
     flashes |-> << <<e.type, "danger">> >>, data |-> NoData]
StoreFailedForm(e) ==
    [kind |-> "redirect", status |-> 302, target |-> "/",
     flashes |-> << <<FlashSaveError, "danger">> >>, data |-> NoData]

\* the except block of submit_json
StoreFailedJson(e) ==
    [kind |-> "json", status |-> 500, target |-> "", flashes |-> <<>>,
     data |-> [ok |-> FALSE, errors |-> <<JsonDbError>>]]

\* render_template("success.html", message_text=..., wa_url=..., provider_sent=False)
StoredForm(f) ==
    [kind |-> "render", status |-> 200, target |-> "success.html",
     flashes |-> << <<FlashSaved, "info">> >>,
     data |-> [message_text |-> msg_plain(f), wa_url |-> wa_url(f),
               provider_sent |-> FALSE]]

\* jsonify({"ok": True, "wa_url": wa_url, "message_text": msg_plain})
StoredJson(f) ==
    [kind |-> "json", status |-> 200, target |-> "", flashes |-> <<>>,
     data |-> [ok |-> TRUE, wa_url |-> wa_url(f), message_text |-> msg_plain(f)]]

\* render_template("admin.html", bookings=rows), after flash(...) when failed
AdminPageSilent(rows, failed) ==
    [kind |-> "render", status |-> 200, target |-> "admin.html",
     flashes |-> <<>>, data |-> [bookings |-> rows]]
AdminPage(rows, failed) ==
    [kind |-> "render", status |-> 200, target |-> "admin.html",
     flashes |-> IF failed THEN << <<FlashAdminError, "danger">> >> ELSE <<>>,
     data |-> [bookings |-> rows]]

\* the 401 challenge of auth.login_required
Unauthorized ==
    [kind |-> "unauthorized", status |-> 401, target |-> "", flashes |-> <<>>,
     data |-> NoData]

\* an exception that leaves the view function: the framework answers 500
Unhandled ==
    [kind |-> "unhandled", status |-> 500, target |-> "", flashes |-> <<>>,
     data |-> NoData]

\* -------------------------------------------------------- the bookings table
\* one row of INSERT INTO bookings (...) VALUES (...); id is the table's
\* generated key
NewRow(tbl, f, now) ==
    [id |-> Len(tbl) + 1,
     item_description |-> f.item_description,
     sender_name |-> f.sender_name,
     sender_phone |-> f.sender_phone,
     sender_pincode |-> f.sender_pincode,
     receiver_pincode |-> f.receiver_pincode,
     created_at |-> now]

\* the effect of the INSERT statement on the table (autocommit=True)
InsertTwice(tbl, row) == Append(Append(tbl, row), [row EXCEPT !.id = row.id + 1])
InsertRow(tbl, row) == Append(tbl, row)

Remove(s, i) == SubSeq(s, 1, i - 1) \o SubSeq(s, i + 1, Len(s))

\* ORDER BY created_at DESC
RECURSIVE order_desc(_)
order_desc(rs) ==
    IF rs = <<>> THEN <<>>
    ELSE LET m == CHOOSE i \in 1..Len(rs) :
                      \A j \in 1..Len(rs) :
                          \/ rs[j].created_at < rs[i].created_at
                          \/ rs[j].created_at = rs[i].created_at /\ j >= i
         IN  <<rs[m]>> \o order_desc(Remove(rs, m))

\* SELECT ... FROM bookings ORDER BY created_at DESC LIMIT 200
select_recent(tbl) ==
    LET sorted == order_desc(tbl)
    IN  SubSeq(sorted, 1, IF Len(sorted) < ADMIN_LIMIT THEN Len(sorted) ELSE ADMIN_LIMIT)

\* ------------------------------------------------------------------ state
VARIABLES
    bookings,    \* the bookings table, in insertion order
    clock,       \* datetime.utcnow(), as a tick count
    pc,          \* where each request's handler stands
    route,       \* the view function serving each request
    form,        \* the five trimmed fields of a submit request
    errs,        \* the handler's errs list
    conn,        \* the handler's connection: "none", "open" or "closed"
    rows,        \* admin's rows
    logged,      \* the exception passed to app.logger.error
    response,    \* the response returned
    inserted,    \* how many rows the request's INSERT statements added
    db_touched,  \* whether the request made a connection attempt
    call         \* the last direct call of get_db_conn and its outcome

vars ==
    <<bookings, clock, pc, route, form, errs, conn, rows, logged, response,
      inserted, db_touched, call>>

NoForm == [n \in FieldNames |-> <<>>]
NoCall == [made |-> FALSE]

Init ==
    /\ bookings = <<>>
    /\ clock = 0
    /\ pc = [r \in Reqs |-> "idle"]
    /\ route = [r \in Reqs |-> "none"]
    /\ form = [r \in Reqs |-> NoForm]
    /\ errs = [r \in Reqs |-> <<>>]
    /\ conn = [r \in Reqs |-> "none"]
    /\ rows = [r \in Reqs |-> <<>>]
    /\ logged = [r \in Reqs |-> NoExc]
    /\ response = [r \in Reqs |-> NoResponse]
    /\ inserted = [r \in Reqs |-> 0]
    /\ db_touched = [r \in Reqs |-> FALSE]
    /\ call = NoCall

\* ------------------------------------------------- submit and submit_json
\* `if errs: ... return ...`: a request with errors ends before the try block
NoEarlyReturn(e) == "connect"
AfterValidation(e) == IF e # <<>> THEN "done" ELSE "connect"

\* lines 110-131 of submit: trim, validate, reject
Submit(r, p) ==
    /\ pc[r] = "idle"
    /\ LET f == [n \in FieldNames |-> strip(FormGet(p, n))]
           e == Validate(f)
       IN  /\ route' = [route EXCEPT ![r] = "submit"]
           /\ form' = [form EXCEPT ![r] = f]
           /\ errs' = [errs EXCEPT ![r] = e]
           /\ pc' = [pc EXCEPT ![r] = AfterValidation(e)]
           /\ response' = IF e # <<>>
                          THEN [response EXCEPT ![r] = RejectedForm(e)]
                          ELSE response
    /\ UNCHANGED <<bookings, clock, conn, rows, logged, inserted, db_touched, call>>

\* lines 163-182 of submit_json: decode, trim, validate, reject.  A body that
\* is a non-empty JSON value other than an object has no .get, and a truthy
\* field that is no string has no .strip: both raise AttributeError outside
\* any try block
SubmitJson(r, body) ==
    /\ pc[r] = "idle"
    /\ route' = [route EXCEPT ![r] = "submit_json"]
    /\ LET data == JsonData(body)
           raw == [n \in FieldNames |-> JsonGet(data, n)]
       IN  IF body.kind = "other" \/ \E n \in FieldNames : raw[n].t # "str"
           THEN /\ pc' = [pc EXCEPT ![r] = "done"]
                /\ response' = [response EXCEPT ![r] = Unhandled]
                /\ UNCHANGED <<form, errs>>
           ELSE LET f == [n \in FieldNames |-> strip(raw[n].v)]
                    e == Validate(f)
                IN  /\ form' = [form EXCEPT ![r] = f]
                    /\ errs' = [errs EXCEPT ![r] = e]
                    /\ pc' = [pc EXCEPT ![r] = AfterValidation(e)]
                    /\ response' = IF e # <<>>
                                   THEN [response EXCEPT ![r] = RejectedJson(e)]
                                   ELSE response
    /\ UNCHANGED <<bookings, clock, conn, rows, logged, inserted, db_touched, call>>

\* @auth.login_required in front of admin
Admin(r, username, password) ==
    /\ pc[r] = "idle"
    /\ route' = [route EXCEPT ![r] = "admin"]
    /\ IF verify(username, password)
       THEN /\ pc' = [pc EXCEPT ![r] = "connect"]
            /\ UNCHANGED response
       ELSE /\ pc' = [pc EXCEPT ![r] = "done"]
            /\ response' = [response EXCEPT ![r] = Unauthorized]
    /\ UNCHANGED <<bookings, clock, form, errs, conn, rows, logged, inserted,
                   db_touched, call>>

\* the `except Exception as e:` block of the three handlers
HandlerExcept(r, e) ==
    /\ logged' = [logged EXCEPT ![r] = e]
    /\ rows' = IF route[r] = "admin" THEN [rows EXCEPT ![r] = <<>>] ELSE rows
    /\ response' = [response EXCEPT ![r] =
                       CASE route[r] = "submit" -> StoreFailedForm(e)
                         [] route[r] = "submit_json" -> StoreFailedJson(e)
                         [] route[r] = "admin" -> AdminPage(<<>>, TRUE)]
    /\ pc' = [pc EXCEPT ![r] = "done"]

\* the statements after the try block
HandlerReturn(r) ==
    /\ response' = [response EXCEPT ![r] =
                       CASE route[r] = "submit" -> StoredForm(form[r])
                         [] route[r] = "submit_json" -> StoredJson(form[r])
                         [] route[r] = "admin" -> AdminPage(rows[r], FALSE)]
    /\ pc' = [pc EXCEPT ![r] = "done"]

\* conn = get_db_conn()
Connect(r) ==
    /\ pc[r] = "connect"
    /\ \E accepts \in ConnOutcomes(DEFAULT_RETRIES) :
          LET res == get_db_conn(TRUE, DEFAULT_RETRIES, DEFAULT_DELAY, accepts)
          IN  /\ db_touched' = [db_touched EXCEPT ![r] =
                                   \E i \in 1..Len(res.events) :
                                       res.events[i].ev = "connect"]
              /\ IF res.ok
                 THEN /\ conn' = [conn EXCEPT ![r] = "open"]
                      /\ pc' = [pc EXCEPT ![r] =
                                   IF route[r] = "admin" THEN "query" ELSE "execute"]
                      /\ UNCHANGED <<logged, rows, response>>
                 ELSE /\ HandlerExcept(r, res.exc)
                      /\ UNCHANGED conn
    /\ UNCHANGED <<bookings, clock, route, form, errs, inserted, call>>

\* cur = conn.cursor(); cur.execute(INSERT ..., (..., datetime.utcnow()))
Execute(r) ==
    /\ pc[r] = "execute"
    /\ \/ /\ HandlerExcept(r, [type |-> "cursor_error"])
          /\ UNCHANGED <<bookings, clock, inserted>>
       \/ /\ clock' = clock + 1
          /\ HandlerExcept(r, [type |-> "insert_error"])
          /\ UNCHANGED <<bookings, inserted>>
       \/ /\ clock' = clock + 1
          /\ bookings' = InsertRow(bookings, NewRow(bookings, form[r], clock'))
          /\ inserted' = [inserted EXCEPT ![r] = @ + Len(bookings') - Len(bookings)]
          /\ pc' = [pc EXCEPT ![r] = "close_cursor"]
          /\ UNCHANGED <<logged, rows, response>>
    /\ UNCHANGED <<route, form, errs, conn, db_touched, call>>

\* cur = conn.cursor(dictionary=True); cur.execute(SELECT ...); rows = cur.fetchall()
Query(r) ==
    /\ pc[r] = "query"
    /\ \/ HandlerExcept(r, [type |-> "query_error"])
       \/ /\ rows' = [rows EXCEPT ![r] = select_recent(bookings)]
          /\ pc' = [pc EXCEPT ![r] = "close_cursor"]
          /\ UNCHANGED <<logged, response>>
    /\ UNCHANGED <<bookings, clock, route, form, errs, conn, inserted, db_touched, call>>

\* cur.close()
CloseCursor(r) ==
    /\ pc[r] = "close_cursor"
    /\ \/ HandlerExcept(r, [type |-> "cursor_close_error"])
       \/ /\ pc' = [pc EXCEPT ![r] = "close_conn"]
          /\ UNCHANGED <<logged, rows, response>>
    /\ UNCHANGED <<bookings, clock, route, form, errs, conn, inserted, db_touched, call>>

\* conn.close(), then the statements after the try block.  When close raises,
\* the connection may or may not have been torn down
CloseConn(r) ==
    /\ pc[r] = "close_conn"
    /\ \/ /\ HandlerExcept(r, [type |-> "conn_close_error"])
          /\ \E c \in {"open", "closed"} : conn' = [conn EXCEPT ![r] = c]
       \/ /\ conn' = [conn EXCEPT ![r] = "closed"]
          /\ HandlerReturn(r)
          /\ UNCHANGED <<logged, rows>>
    /\ UNCHANGED <<bookings, clock, route, form, errs, inserted, db_touched, call>>

\* --------------------------------------------- direct calls of the connector
\* get_db_conn(retry, retries, delay), called on its own
GetDbConn(retry, retries, delay, accepts) ==
    /\ call' = [made |-> TRUE, retry |-> retry, retries |-> retries,
                delay |-> delay,
                result |-> get_db_conn(retry, retries, delay, accepts)]
    /\ UNCHANGED <<bookings, clock, pc, route, form, errs, conn, rows, logged,
                   response, inserted, db_touched>>

\* get_db(): the alias, which calls get_db_conn()
GetDb(accepts) == GetDbConn(TRUE, DEFAULT_RETRIES, DEFAULT_DELAY, accepts)

\* ----------------------------------------------------------------- inputs
Pads(s) == {s, <<" ">> \o s, s \o <<" ">>, <<" ">> \o s \o <<" ">>}

\* a few whole payloads, for runs in which requests overlap
GoodPayload ==
    Payload(Str(<<" ", "a", " ">>), Str(<<"a">>),
            Str(<<" ">> \o Rep("9", MIN_PHONE_LEN)), Str(<<"a">>), Str(<<"a">>))
SomePayloads ==
    {GoodPayload,
     [GoodPayload EXCEPT !.sender_phone = Str(Rep("9", MIN_PHONE_LEN - 1) \o <<" ">>)],
     [GoodPayload EXCEPT !.item_description = Str(<<" ">>)],
     [GoodPayload EXCEPT !.receiver_pincode = Missing, !.sender_name = Str(<<>>)],
     Payload(Missing, Missing, Missing, Missing, Missing)}
\* a body that is no JSON object: unreadable or falsy, or another JSON value
OtherBodies ==
    {[kind |-> "none", data |-> EmptyObject], [kind |-> "other", data |-> EmptyObject]}
SomeBodies ==
    {[kind |-> "object", data |-> p] : p \in SomePayloads}
    \cup {[kind |-> "object", data |-> [GoodPayload EXCEPT !.sender_phone = Num(7)]]}
    \cup OtherBodies

\* every combination of field values, for runs of a single request
TextValues == {Missing} \cup {Str(x) : x \in {<<>>, <<" ">>, <<"a">>, <<" ", "a", " ">>}}
PhoneValues ==
    {Missing} \cup {Str(x) : x \in UNION {Pads(Rep("9", k)) : k \in 0..MaxPhoneLen}}
\* JSON values that are no strings: a falsy and a truthy number
JsonOnly == {Num(0), Num(7)}
JsonTextValues == TextValues \cup JsonOnly
JsonPhoneValues == PhoneValues \cup JsonOnly
Credentials ==
    {<<ADMIN_USER, ADMIN_PASS>>, <<ADMIN_USER, <<"x">> >>, <<"eve", ADMIN_PASS>>,
     <<"", <<>> >>}

Delays == {1, DEFAULT_DELAY}

\* ---------------------------------------------------------- specifications
\* requests served concurrently, each handler one thread of control
Next ==
    \E r \in Reqs :
        \/ \E p \in SomePayloads : Submit(r, p)
        \/ \E b \in SomeBodies : SubmitJson(r, b)
        \/ \E c \in Credentials : Admin(r, c[1], c[2])
        \/ Connect(r)
        \/ Execute(r)
        \/ Query(r)
        \/ CloseCursor(r)
        \/ CloseConn(r)

Spec == Init /\ [][Next]_vars

\* one submit request, over every combination of field values
NextSubmit ==
    \/ \E a \in TextValues, b \in TextValues, c \in PhoneValues,
          d \in TextValues, e \in TextValues :
          Submit(1, Payload(a, b, c, d, e))
    \/ \E a \in JsonTextValues, b \in JsonTextValues, c \in JsonPhoneValues,
          d \in JsonTextValues, e \in JsonTextValues :
          SubmitJson(1, [kind |-> "object", data |-> Payload(a, b, c, d, e)])
    \/ \E b \in OtherBodies : SubmitJson(1, b)
    \/ Connect(1)
    \/ Execute(1)
    \/ CloseCursor(1)
    \/ CloseConn(1)

SpecSubmit == Init /\ [][NextSubmit]_vars

\* the connector called with every combination of arguments
NextConn ==
    \/ \E retry \in BOOLEAN, retries \in 0..MaxRetries, delay \in Delays,
          accepts \in ConnOutcomes(MaxRetries) :
          GetDbConn(retry, retries, delay, accepts)
    \/ \E accepts \in ConnOutcomes(DEFAULT_RETRIES) : GetDb(accepts)

SpecConn == Init /\ [][NextConn]_vars

\* ------------------------------------------------------------- properties
SubmitRoutes == {"submit", "submit_json"}

\* the request was decoded and validated by one of the two submit handlers
Validated(r) == route[r] \in SubmitRoutes /\ response[r].kind # "unhandled"
\* the states of the submission handler's state machine
Rejected(r) == Validated(r) /\ errs[r] # <<>>
StoreFailed(r) == route[r] \in SubmitRoutes /\ logged[r] # NoExc
Stored(r) ==
    route[r] \in SubmitRoutes /\ pc[r] = "done" /\ response[r].status = 200

Range(s) == {s[i] : i \in 1..Len(s)}
IsPrefix(s, t) == Len(s) <= Len(t) /\ SubSeq(t, 1, Len(s)) = s

RECURSIVE Sum(_, _)
Sum(f, S) ==
    IF S = {} THEN 0 ELSE LET x == CHOOSE y \in S : TRUE IN f[x] + Sum(f, S \ {x})

\* C1: every row of the bookings table has item_description, sender_name,
\* sender_pincode and receiver_pincode non-empty after trimming and a
\* sender_phone of trimmed length at least 6, whichever entry point stored it.
C1_StoredRowsValid ==
    \A i \in 1..Len(bookings) :
        /\ strip(bookings[i].item_description) # <<>>
        /\ strip(bookings[i].sender_name) # <<>>
        /\ Len(strip(bookings[i].sender_phone)) >= MIN_PHONE_LEN
        /\ strip(bookings[i].sender_pincode) # <<>>
        /\ strip(bookings[i].receiver_pincode) # <<>>

\* rows stored through both entry points
C1_Witness ==
    /\ Len(bookings) >= 2
    /\ \E r, q \in Reqs :
          /\ route[r] = "submit" /\ inserted[r] = 1
          /\ route[q] = "submit_json" /\ inserted[q] = 1

ReasonOrder == <<ErrItem, ErrName, ErrPhone, ErrSpin, ErrRpin>>
Position(reason) == CHOOSE i \in 1..Len(ReasonOrder) : ReasonOrder[i] = reason

\* the reasons the response of a rejected request carries
Reported(r) ==
    IF route[r] = "submit"
    THEN [i \in 1..Len(response[r].flashes) |-> response[r].flashes[i][1]]
    ELSE response[r].data.errors

\* C2: in both entry points the error list is exactly the reasons whose check
\* fails, in the fixed order item_description, sender_name, sender_phone,
\* sender_pincode, receiver_pincode: a field's reason appears iff the trimmed
\* field is blank, the phone reason iff the phone is blank or shorter than 6;
\* a request with reasons is answered with exactly that list, and a request
\* with none is accepted.
C2_ErrorListExact ==
    \A r \in Reqs :
        Validated(r) =>
            LET f == form[r]
                e == errs[r]
            IN  /\ Range(e) \subseteq Range(ReasonOrder)
                /\ \A i, j \in 1..Len(e) : i < j => Position(e[i]) < Position(e[j])
                /\ ErrItem \in Range(e) <=> Len(f.item_description) = 0
                /\ ErrName \in Range(e) <=> Len(f.sender_name) = 0
                /\ ErrPhone \in Range(e) <=> Len(f.sender_phone) < MIN_PHONE_LEN
                /\ ErrSpin \in Range(e) <=> Len(f.sender_pincode) = 0
                /\ ErrRpin \in Range(e) <=> Len(f.receiver_pincode) = 0
                /\ IF e # <<>>
                   THEN /\ pc[r] = "done"
                        /\ response[r].kind = (IF route[r] = "submit" THEN "redirect" ELSE "json")
                        /\ response[r].status = (IF route[r] = "submit" THEN 302 ELSE 400)
                        /\ Reported(r) = e
                   ELSE \/ pc[r] \in {"connect", "execute", "close_cursor", "close_conn"}
                        \/ pc[r] = "done" /\ (Stored(r) \/ StoreFailed(r))

\* a phone of five characters, all else valid, is rejected with the phone
\* reason alone
C2_Witness ==
    \E r \in Reqs :
        /\ route[r] = "submit_json"
        /\ Len(form[r].sender_phone) = MIN_PHONE_LEN - 1
        /\ errs[r] = <<ErrPhone>>
        /\ response[r].status = 400

\* C3: a submit request that fails validation makes no connection attempt,
\* holds no connection, inserts no row, and its step leaves the bookings
\* table unchanged, in both entry points.
C3_RejectedLeavesStorage ==
    /\ [](\A r \in Reqs :
            Rejected(r) =>
                /\ pc[r] = "done"
                /\ ~db_touched[r]
                /\ conn[r] = "none"
                /\ inserted[r] = 0)
    /\ [][\A r \in Reqs :
            (pc[r] = "idle" /\ Rejected(r)') =>
                (bookings' = bookings /\ clock' = clock)]_vars

\* a rejection through each entry point, next to a stored booking
C3_Witness ==
    \E r, q \in Reqs :
        /\ Rejected(r) /\ route[r] = "submit" /\ pc[r] = "done"
        /\ Stored(q) /\ Len(bookings) = 1

\* the connection attempts of a call, in order
ConnectEvents(events) == SelectSeq(events, LAMBDA x : x.ev = "connect")
SleepEvents(events) == SelectSeq(events, LAMBDA x : x.ev = "sleep")

\* C4: get_db_conn(retry, retries, delay) makes at most `retries` attempts
\* when retry is true and exactly one when retry is false; it returns at the
\* first successful attempt, which is its last; it fails only after every
\* permitted attempt has failed, and the error wraps the failure of the last
\* attempt.
C4_BoundedAttempts ==
    call.made =>
        LET res == call.result
            att == ConnectEvents(res.events)
            n == Len(att)
        IN  /\ call.retry => n <= call.retries
            /\ ~call.retry => n = 1
            /\ \A i \in 1..n : att[i].attempt = i
            /\ \A i \in 1..(n - 1) : ~att[i].ok
            /\ res.ok => n >= 1 /\ att[n].ok
                         /\ res.events[Len(res.events)] = att[n]
            /\ ~res.ok =>
                  /\ n = (IF call.retry THEN call.retries ELSE 1)
                  /\ \A i \in 1..n : ~att[i].ok
                  /\ res.exc.type = "Exception"
                  /\ n >= 1 => res.exc.last_exc = ConnectError(att[n].attempt)

\* the default call fails after its eight attempts
C4_Witness ==
    /\ call.made
    /\ call.retry /\ call.retries = DEFAULT_RETRIES
    /\ ~call.result.ok
    /\ Len(ConnectEvents(call.result.events)) = DEFAULT_RETRIES

\* C5: every connection a handler opened is closed when the handler has
\* returned its response, on every path.
C5_ConnectionsClosed ==
    \A r \in Reqs : pc[r] = "done" => conn[r] # "open"

\* C6: a validated submit request that hits a connection or insert failure is
\* answered with the fixed generic error, whatever the failure: status 500
\* with {ok: false, errors: ["Server DB error"]} from /api/submit-json, a
\* redirect to / with the one fixed flash message from /submit; no error
\* text, wa_url or message_text, and the handler returns normally.
C6_GenericStoreFailure ==
    \A r \in Reqs :
        StoreFailed(r) =>
            /\ pc[r] = "done"
            /\ errs[r] = <<>>
            /\ route[r] = "submit_json" =>
                  /\ response[r].kind = "json"
                  /\ response[r].status = 500
                  /\ response[r].data = [ok |-> FALSE, errors |-> <<"Server DB error">>]
                  /\ response[r].flashes = <<>>
            /\ route[r] = "submit" =>
                  /\ response[r].kind = "redirect"
                  /\ response[r].target = "/"
                  /\ response[r].flashes =
                        << <<"Server error saving booking. Try again later.", "danger">> >>
                  /\ response[r].data = NoData

\* two different underlying failures, one through each entry point
C6_Witness ==
    \E r, q \in Reqs :
        /\ StoreFailed(r) /\ route[r] = "submit" /\ logged[r].type = "Exception"
        /\ StoreFailed(q) /\ route[q] = "submit_json" /\ logged[q].type = "insert_error"

\* C7: an authenticated /admin request whose connection or query fails still
\* ends with the rendered page, an empty booking list and the error notice;
\* an empty list without the notice comes only from a read that succeeded.
C7_AdminDegradesToEmpty ==
    \A r \in Reqs :
        route[r] = "admin" =>
            /\ logged[r] # NoExc =>
                  /\ pc[r] = "done"
                  /\ response[r].kind = "render"
                  /\ response[r].target = "admin.html"
                  /\ response[r].data.bookings = <<>>
                  /\ <<"Could not load bookings.", "danger">> \in Range(response[r].flashes)
            /\ (pc[r] = "done" /\ response[r].kind = "render"
                /\ response[r].data.bookings = <<>> /\ response[r].flashes = <<>>) =>
                  /\ logged[r] = NoExc
                  /\ conn[r] = "closed"
                  /\ rows[r] = <<>>

\* the query fails while the table holds a booking
C7_Witness ==
    \E r \in Reqs :
        /\ route[r] = "admin" /\ pc[r] = "done"
        /\ logged[r].type = "query_error"
        /\ bookings # <<>>

\* C8: under any interleaving the bookings table is append-only: a step adds
\* at most one row at the end and changes no existing row; no request adds
\* more than one row, each request that reaches Stored added exactly one, and
\* the table holds exactly the rows the requests added.
C8_AppendOnly ==
    /\ [](/\ \A r \in Reqs : inserted[r] <= 1 /\ (Stored(r) => inserted[r] = 1)
          /\ Len(bookings) = Sum(inserted, Reqs))
    /\ [][/\ IsPrefix(bookings, bookings')
          /\ Len(bookings') <= Len(bookings) + 1]_vars

\* two identical submissions, both stored, made two rows
C8_Witness ==
    \E r, q \in Reqs :
        /\ r # q /\ Stored(r) /\ Stored(q)
        /\ form[r] = form[q]
        /\ Len(bookings) = 2
        /\ bookings[1].sender_phone = bookings[2].sender_phone

\* C9: with retry true every sleep is followed by another connection attempt,
\* so a call that exhausts its attempts sleeps retries-1 times and raises
\* directly after the last failed attempt.
C9_SleepOnlyBetweenAttempts ==
    (call.made /\ call.retry) =>
        LET ev == call.result.events
        IN  /\ \A i \in 1..Len(ev) :
                  ev[i].ev = "sleep" => (i < Len(ev) /\ ev[i + 1].ev = "connect")
            /\ (~call.result.ok /\ call.retries >= 1) =>
                  Len(SleepEvents(ev)) = call.retries - 1

\* C10: what a submit request reports is what it persisted: answered with
\* success it added exactly one row, answered with the storage failure it
\* added none.
C10_OutcomeMatchesStorage ==
    \A r \in Reqs :
        (route[r] \in SubmitRoutes /\ pc[r] = "done") =>
            /\ Stored(r) => inserted[r] = 1
            /\ StoreFailed(r) => inserted[r] = 0

====
